---- MODULE Spec2Model ----
(***************************************************************************)
(* Verification model of conda-config: the condarc schema, alias           *)
(* normalisation, per-file validation, the pairwise merge of validated     *)
(* configurations, the file configuration source and the Context lookup.   *)
(*                                                                         *)
(* Encoding of Python values                                               *)
(*   scalar   a string; Python None is "None", True/False are "True" and   *)
(*            "False"                                                      *)
(*   str      a sequence of text tokens (used for error messages)          *)
(*   tuple    a sequence                                                   *)
(*   dict     a function from keys to values                               *)
(* The schema of the model is nine of the declared fields: every kind      *)
(* merge_condarc distinguishes, and the fields the Context reads itself.   *)
(***************************************************************************)
EXTENDS Integers, Sequences, FiniteSets, TLC

VARIABLES
    file_type,      \* FileConfigSource.file_type
    config_files,   \* FileConfigSource.config_files: the ordered paths
    disk,           \* the file system: what opening and parsing each path gives
    raw_data,       \* FileConfigSource.raw_data: (path, parsed data) per file
    parsed_data,    \* FileConfigSource.parsed_data: the merged CondarcConfig
    exception,      \* the exception raised to the caller of the constructor
    processed,      \* number of loop iterations get_condarc_obj completed
    pc,             \* position in FileConfigSource.__init__
    file_config_source, \* Context._file_config_source: is a source set
    env_config_source,  \* Context._env_config_source: is a source set
    cli_config_source,  \* Context._cli_config_source: [present, args_obj]
    environ,        \* os.environ
    fragments,      \* the mappings handed to get_condarc_obj / merge_condarc directly
    merged,         \* the outcome of the last reduction of fragments
    system_config,  \* Context._system_config: its attributes
    lookup          \* the last attribute lookup on the Context: [item, result]

filevars == <<file_type, config_files, disk, raw_data, parsed_data, exception, processed, pc>>
ctxvars == <<file_config_source, env_config_source, cli_config_source, environ, system_config>>
mergevars == <<fragments, merged>>
vars == <<filevars, ctxvars, lookup, mergevars>>

(***************************************************************************)
(* Bounds                                                                  *)
(***************************************************************************)
MaxFiles == 2

(***************************************************************************)
(* Python values                                                           *)
(***************************************************************************)
None == "None"
EmptyDict == [k \in {} |-> ""]
NoException == [type |-> "none", message |-> <<>>]

\* tuple(dict.fromkeys(seq)): drop every repeated element, keep first occurrences
RECURSIVE DictFromKeys(_)
DictFromKeys(seq) ==
    IF seq = <<>> THEN <<>>
    ELSE LET front == DictFromKeys(SubSeq(seq, 1, Len(seq) - 1))
             last == seq[Len(seq)]
         IN IF \E k \in 1..Len(front) : front[k] = last THEN front ELSE Append(front, last)

\* d.update(other): the keys of other are written over those of d
DictUpdate(d, other) == other @@ d

\* sep.join(parts) for strings held as token sequences
RECURSIVE Join(_, _)
Join(sep, parts) ==
    IF parts = <<>> THEN <<>>
    ELSE IF Len(parts) = 1 THEN parts[1]
    ELSE parts[1] \o <<sep>> \o Join(sep, Tail(parts))

(***************************************************************************)
(* errors.py                                                               *)
(***************************************************************************)
CONDARC_PARSE_ERROR_SUGGESTION == "Please refer to our documentation to read more about configuration variables and the values the can have:\nhttps://docs.conda.io/projects/conda/en/latest/configuration.html"

CONFIG_ERROR_PREFIX == "Unable to parse configuration file"

\* One pydantic error is [loc, msg, given, permitted]; given = "" when the
\* error carries no ctx.
RECURSIVE FormatErrors(_)
FormatErrors(errors) ==
    IF errors = <<>> THEN <<>>
    ELSE LET err == errors[1]
         IN <<"\n  ", err.loc, ": \n", "    ", err.msg, "\n">>
            \o (IF err.given # "" /\ err.permitted # ""
                THEN <<"  provided_value: ", "'", err.given, "'\n">> ELSE <<>>)
            \o FormatErrors(Tail(errors))

format_validation_error(errors, path) ==
    <<CONFIG_ERROR_PREFIX, ": ", path, "\n">> \o FormatErrors(errors)

format_all_validation_errors(validation_errors) ==
    Join("\n\n", validation_errors) \o <<"\n\n", CONDARC_PARSE_ERROR_SUGGESTION>>

(***************************************************************************)
(* condarc.py: the schema                                                  *)
(***************************************************************************)
\* (alias, field name) in the order of the FIELD_ALIASES literal
FIELD_ALIASES ==
    << <<"channel", "channels">>,
       <<"add_binstar_token", "add_anaconda_token">>,
       <<"envs_path", "envs_dirs">>,
       <<"client_cert", "client_ssl_cert">>,
       <<"client_cert_key", "client_ssl_cert_key">>,
       <<"verify_ssl", "ssl_verify">>,
       <<"self_update", "auto_update_conda">>,
       <<"disallow", "disallowed_packages">>,
       <<"copy", "always_copy">>,
       <<"softlink", "always_softlink">>,
       <<"binstar_upload", "anaconda_upload">>,
       <<"conda-build", "conda_build">>,
       <<"yes", "always_yes">>,
       <<"json", "json__">>,
       <<"verbose", "verbosity">>,
       <<"solver", "experimental_solver">> >>

\* The declared fields of the model, in declaration order
FieldOrder ==
    <<"channels", "override_channels_enabled", "use_local", "allowlist_channels",
      "custom_channels", "envs_dirs", "client_ssl_cert", "pinned_packages", "always_yes">>
Fields == {FieldOrder[k] : k \in 1..Len(FieldOrder)}

TupleFields == {"channels", "allowlist_channels", "envs_dirs", "pinned_packages"}
DictFields == {"custom_channels"}
ScalarFields == Fields \ (TupleFields \cup DictFields)
BoolFields == {"override_channels_enabled", "use_local", "always_yes"}

\* Field(default=...) of each declared field
FieldDefault(fld) ==
    CASE fld = "channels" -> <<"defaults">>
      [] fld = "custom_channels" -> [k \in {"pkgs/pro"} |-> "https://repo.anaconda.com"]
      [] fld = "client_ssl_cert" -> None
      [] fld = "always_yes" -> "False"
      [] fld = "override_channels_enabled" -> "True"
      [] fld = "use_local" -> "False"
      [] fld \in {"allowlist_channels", "envs_dirs", "pinned_packages"} -> <<>>

\* pydantic's bool validator: the accepted spellings, compared in lower case
BoolTrue == {"True", "true", "1", "on", "t", "y", "yes"}
BoolFalse == {"False", "false", "0", "off", "f", "n", "no"}

\* A value of the declared type, or the pydantic error message
FieldError(fld, value) ==
    CASE fld \in BoolFields ->
            IF value \in BoolTrue \cup BoolFalse THEN ""
            ELSE "value could not be parsed to a boolean"
      [] OTHER -> ""

FieldCoerce(fld, value) ==
    CASE fld \in BoolFields -> IF value \in BoolTrue THEN "True" ELSE "False"
      [] OTHER -> value

\* Errors of the declared fields, in declaration order, then the extra keys
\* (BaseSettings forbids extra fields)
RECURSIVE DeclaredErrors(_, _)
DeclaredErrors(config, k) ==
    IF k > Len(FieldOrder) THEN <<>>
    ELSE LET fld == FieldOrder[k]
         IN (IF fld \in DOMAIN config /\ FieldError(fld, config[fld]) # ""
             THEN << [loc |-> fld, msg |-> FieldError(fld, config[fld]),
                      given |-> "", permitted |-> ""] >>
             ELSE <<>>)
            \o DeclaredErrors(config, k + 1)

RECURSIVE ExtraErrors(_)
ExtraErrors(keys) ==
    IF keys = {} THEN <<>>
    ELSE LET key == CHOOSE x \in keys : TRUE
         IN << [loc |-> key, msg |-> "extra fields not permitted",
                given |-> "", permitted |-> ""] >>
            \o ExtraErrors(keys \ {key})

\* CondarcConfig(**config): [errors, value]; value has every declared field,
\* the ones config omits at their default.  (BaseSettings would also read an
\* omitted field from an environment variable named like the field; the
\* process environment of the model holds no such variable.)
CondarcConfig(config) ==
    LET errors == DeclaredErrors(config, 1) \o ExtraErrors(DOMAIN config \ Fields)
    IN [errors |-> errors,
        value |-> [fld \in Fields |->
                     IF fld \in DOMAIN config /\ FieldError(fld, config[fld]) = ""
                     THEN FieldCoerce(fld, config[fld])
                     ELSE FieldDefault(fld)]]

(***************************************************************************)
(* condarc.py: merge_condarc, remap_aliases, get_condarc_obj               *)
(***************************************************************************)
\* An entry of channels is a str or a one-key mapping {name: {...}}.  Every
\* entry is held as a string; the mapping {name: {...}} is held as "{name}"
\* and the empty mapping as "{}".
MappingEntry(name) == "{" \o name \o "}"
IsMapping(entry) == Len(entry) >= 2 /\ SubSeq(entry, 1, 1) = "{"

\* dict.fromkeys(...) hashes every element: a dict element raises TypeError
merge_condarc_raises(obj_one, obj_two) ==
    \E fld \in TupleFields :
        \E k \in 1..Len(obj_two[fld] \o obj_one[fld]) :
            IsMapping((obj_two[fld] \o obj_one[fld])[k])

\* A variant that concatenates without dict.fromkeys
merge_condarc_keep_duplicates(obj_one, obj_two) ==
    [fld \in Fields |->
        IF fld \in TupleFields THEN obj_two[fld] \o obj_one[fld]
        ELSE IF fld \in DictFields THEN DictUpdate(obj_two[fld], obj_one[fld])
        ELSE IF obj_two[fld] # None THEN obj_two[fld] ELSE obj_one[fld]]

\* A plausible slip: the sequences concatenated left (obj_one) first
merge_condarc_left_first(obj_one, obj_two) ==
    [fld \in Fields |->
        IF fld \in TupleFields THEN DictFromKeys(obj_one[fld] \o obj_two[fld])
        ELSE IF fld \in DictFields THEN DictUpdate(obj_two[fld], obj_one[fld])
        ELSE IF obj_two[fld] # None THEN obj_two[fld] ELSE obj_one[fld]]

\* A plausible slip: the scalar of the left object kept when it has one
merge_condarc_left_wins(obj_one, obj_two) ==
    [fld \in Fields |->
        IF fld \in TupleFields THEN DictFromKeys(obj_two[fld] \o obj_one[fld])
        ELSE IF fld \in DictFields THEN DictUpdate(obj_two[fld], obj_one[fld])
        ELSE IF obj_one[fld] # None THEN obj_one[fld] ELSE obj_two[fld]]

\* After validation a field holds a tuple exactly when it is declared Tuple, a
\* dict exactly when declared Dict: the isinstance tests follow the field kind.
merge_condarc(obj_one, obj_two) ==
    [fld \in Fields |->
        IF fld \in TupleFields THEN DictFromKeys(obj_two[fld] \o obj_one[fld])
        ELSE IF fld \in DictFields THEN DictUpdate(obj_two[fld], obj_one[fld])
        ELSE IF obj_two[fld] # None THEN obj_two[fld] ELSE obj_one[fld]]

\* A variant that keeps a canonical key already present
RemapOne_keep_canonical(config, alias, field_name) ==
    IF alias \in DOMAIN config
    THEN [key \in (DOMAIN config \ {alias}) \cup {field_name} |->
            IF key \in DOMAIN config \ {alias} THEN config[key] ELSE config[alias]]
    ELSE config

\* config[field_name] = config.pop(alias) for one alias
RemapOne(config, alias, field_name) ==
    IF alias \in DOMAIN config
    THEN [key \in (DOMAIN config \ {alias}) \cup {field_name} |->
            IF key = field_name THEN config[alias] ELSE config[key]]
    ELSE config

RECURSIVE RemapFrom(_, _)
RemapFrom(config, k) ==
    IF k > Len(FIELD_ALIASES) THEN config
    ELSE RemapFrom(RemapOne(config, FIELD_ALIASES[k][1], FIELD_ALIASES[k][2]), k + 1)

\* A variant that renames nothing
remap_aliases_identity(config) == config

remap_aliases(config) == RemapFrom(config, 1)

\* reduce(merge_condarc, condarc_configs) for a non-empty list
RECURSIVE Reduce(_)
Reduce(condarc_configs) ==
    IF Len(condarc_configs) = 1 THEN condarc_configs[1]
    ELSE merge_condarc(Reduce(SubSeq(condarc_configs, 1, Len(condarc_configs) - 1)),
                       condarc_configs[Len(condarc_configs)])

\* Does some merge_condarc call of that reduce raise TypeError
RECURSIVE ReduceRaises(_)
ReduceRaises(condarc_configs) ==
    IF Len(condarc_configs) = 1 THEN FALSE
    ELSE LET front == SubSeq(condarc_configs, 1, Len(condarc_configs) - 1)
         IN \/ ReduceRaises(front)
            \/ merge_condarc_raises(Reduce(front), condarc_configs[Len(condarc_configs)])

\* The loop of get_condarc_obj from entry k on.  A parsed content is
\* [kind, data]: kind "str" for a bare string, "none" for Python None (an
\* empty document), "dict" for a mapping.  "in" on None raises TypeError.
RECURSIVE CondarcLoop(_, _, _, _)
CondarcLoop(config_data, k, condarc_configs, validation_errors) ==
    IF k > Len(config_data)
    THEN [crashed |-> FALSE, processed |-> k - 1,
          condarc_configs |-> condarc_configs, validation_errors |-> validation_errors]
    ELSE LET path == config_data[k].path
             single_config == config_data[k].data
         IN IF single_config.kind = "str"
            THEN CondarcLoop(config_data, k + 1, condarc_configs,
                     Append(validation_errors, <<CONFIG_ERROR_PREFIX, ": ", path>>))
            ELSE IF single_config.kind = "none"
            THEN [crashed |-> TRUE, processed |-> k - 1,
                  condarc_configs |-> condarc_configs,
                  validation_errors |-> validation_errors]
            ELSE LET config == CondarcConfig(remap_aliases(single_config.data))
                 IN IF config.errors = <<>>
                    THEN CondarcLoop(config_data, k + 1,
                             Append(condarc_configs, config.value), validation_errors)
                    ELSE CondarcLoop(config_data, k + 1, condarc_configs,
                             Append(validation_errors,
                                    format_validation_error(config.errors, path)))

\* remap_aliases rewrites the caller's dict in place: the mappings of the
\* entries the loop reached hold canonical names afterwards
Remapped(config_data, reached) ==
    [k \in 1..Len(config_data) |->
        IF k <= reached /\ config_data[k].data.kind = "dict"
        THEN [path |-> config_data[k].path,
              data |-> [kind |-> "dict", data |-> remap_aliases(config_data[k].data.data)]]
        ELSE config_data[k]]

get_condarc_obj(config_data) ==
    LET loop == CondarcLoop(config_data, 1, <<>>, <<>>)
    IN IF loop.crashed
       THEN [exception |-> [type |-> "TypeError",
                            message |-> <<"argument of type 'NoneType' is not iterable">>],
             config_data |-> Remapped(config_data, loop.processed),
             processed |-> loop.processed, value |-> EmptyDict]
       ELSE IF Len(loop.validation_errors) > 0
       THEN [exception |-> [type |-> "CondaConfigError",
                            message |-> format_all_validation_errors(loop.validation_errors)],
             config_data |-> Remapped(config_data, loop.processed),
             processed |-> loop.processed, value |-> EmptyDict]
       ELSE IF ReduceRaises(loop.condarc_configs)
       THEN [exception |-> [type |-> "TypeError", message |-> <<"unhashable type: 'dict'">>],
             config_data |-> Remapped(config_data, loop.processed),
             processed |-> loop.processed, value |-> EmptyDict]
       ELSE [exception |-> NoException, processed |-> loop.processed,
             config_data |-> Remapped(config_data, loop.processed),
             value |-> Reduce(loop.condarc_configs)]

(***************************************************************************)
(* sources.py: the file readers and FileConfigSource                       *)
(***************************************************************************)
\* What a path gives: [io, content].  io "oserror": open() raises OSError;
\* "parse_error": the parser raises YAMLError / ValueError; "ok": the parser
\* returns content.
DictContent(data) == [kind |-> "dict", data |-> data]

\* A plausible slip: parsed_data starts as None instead of {}
read_yaml_file_none(state) ==
    IF state.io = "oserror" THEN [kind |-> "none", data |-> EmptyDict]
    ELSE IF state.io = "parse_error" THEN [kind |-> "none", data |-> EmptyDict]
    ELSE state.content

read_yaml_file(state) ==
    IF state.io = "oserror" THEN DictContent(EmptyDict)
    ELSE IF state.io = "parse_error" THEN DictContent(EmptyDict)
    ELSE state.content

read_json_file(state) ==
    IF state.io = "oserror" THEN DictContent(EmptyDict)
    ELSE IF state.io = "parse_error" THEN DictContent(EmptyDict)
    ELSE state.content

get_config_file_parser(ftype, state) ==
    IF ftype = "yaml" THEN read_yaml_file(state) ELSE read_json_file(state)

\* A variant without the guard for an empty list: reduce() of an empty
\* sequence raises TypeError
FileConfigSource_merge_no_guard(files, data) ==
    IF Len(files) = 0
    THEN [exception |-> [type |-> "TypeError",
                         message |-> <<"reduce() of empty sequence with no initial value">>],
          processed |-> 0, config_data |-> data, value |-> EmptyDict]
    ELSE get_condarc_obj(data)

\* FileConfigSource._merge
FileConfigSource_merge(files, data) ==
    IF Len(files) = 0
    THEN [exception |-> NoException, processed |-> 0, config_data |-> data,
          value |-> CondarcConfig(EmptyDict).value]
    ELSE get_condarc_obj(data)

\* Python values whose type the Context inspects carry it: [kind, val]
Scalar(val) == [kind |-> "scalar", val |-> val]
TupleOf(val) == [kind |-> "tuple", val |-> val]
ListOf(val) == [kind |-> "list", val |-> val]
DictOf(val) == [kind |-> "dict", val |-> val]

\* FileConfigSource.get_parameter / has_parameter on the merged CondarcConfig
File_get_parameter(name) ==
    IF name \in TupleFields THEN TupleOf(parsed_data[name])
    ELSE IF name \in DictFields THEN DictOf(parsed_data[name])
    ELSE Scalar(parsed_data[name])

File_has_parameter(name) == name \in DOMAIN parsed_data

\* str.upper() on the characters field names are written with
UpperChar(c) ==
    CASE c = "a" -> "A" [] c = "b" -> "B" [] c = "c" -> "C" [] c = "d" -> "D"
      [] c = "e" -> "E" [] c = "f" -> "F" [] c = "g" -> "G" [] c = "h" -> "H"
      [] c = "i" -> "I" [] c = "j" -> "J" [] c = "k" -> "K" [] c = "l" -> "L"
      [] c = "m" -> "M" [] c = "n" -> "N" [] c = "o" -> "O" [] c = "p" -> "P"
      [] c = "q" -> "Q" [] c = "r" -> "R" [] c = "s" -> "S" [] c = "t" -> "T"
      [] c = "u" -> "U" [] c = "v" -> "V" [] c = "w" -> "W" [] c = "x" -> "X"
      [] c = "y" -> "Y" [] c = "z" -> "Z" [] OTHER -> c

RECURSIVE Upper(_)
Upper(str) ==
    IF Len(str) = 0 THEN ""
    ELSE UpperChar(SubSeq(str, 1, 1)) \o Upper(SubSeq(str, 2, Len(str)))

\* str.split(sep) for a one-character separator
RECURSIVE SplitFrom(_, _, _, _)
SplitFrom(str, sep, start, k) ==
    IF k > Len(str) THEN <<SubSeq(str, start, Len(str))>>
    ELSE IF SubSeq(str, k, k) = sep
    THEN <<SubSeq(str, start, k - 1)>> \o SplitFrom(str, sep, k + 1, k + 1)
    ELSE SplitFrom(str, sep, start, k + 1)

Split(str, sep) == SplitFrom(str, sep, 1, 1)

COMMA_SEPARATED_PARAMS ==
    {"channels", "default_channels", "whitelist_channels", "migrated_channel_aliases",
     "repodata_fns", "pkgs_dirs", "aggressive_update_packages", "create_default_packages",
     "track_features"}
COLON_SEPARATED_PARAMS == {"envs_dirs", "envs_path", ""}
AMP_SEPARATED_PARAMS == {"disallowed_packages", "pinned_packages"}
ENV_VAR_PREFIX == "CONDA_"

EnvVar(name) == ENV_VAR_PREFIX \o Upper(name)

\* EnvConfigSource.get_parameter / has_parameter
Env_get_parameter(name) ==
    IF EnvVar(name) \in DOMAIN environ
    THEN LET value == environ[EnvVar(name)]
         IN IF name \in COMMA_SEPARATED_PARAMS THEN ListOf(Split(value, ","))
            ELSE IF name \in COLON_SEPARATED_PARAMS THEN ListOf(Split(value, ":"))
            ELSE IF name \in AMP_SEPARATED_PARAMS THEN ListOf(Split(value, "&"))
            ELSE Scalar(value)
    ELSE Scalar(None)

Env_has_parameter(name) == EnvVar(name) \in DOMAIN environ

\* CLIConfigSource.get_parameter / has_parameter
CLI_get_parameter(name) ==
    IF name \in DOMAIN cli_config_source.args_obj
    THEN cli_config_source.args_obj[name] ELSE Scalar(None)

CLI_has_parameter(name) == name \in DOMAIN cli_config_source.args_obj

(***************************************************************************)
(* context.py: Context.__getattr__                                         *)
(***************************************************************************)
\* A plausible slip: the files consulted before the environment and the CLI
CONFIG_PARSE_ORDER_files_first == <<"file", "env", "cli">>

CONFIG_PARSE_ORDER == <<"cli", "env", "file">>

SourceIsSet(source) ==
    CASE source = "cli" -> cli_config_source.present
      [] source = "env" -> env_config_source.present
      [] source = "file" -> file_config_source.present

has_parameter(source, name) ==
    CASE source = "cli" -> CLI_has_parameter(name)
      [] source = "env" -> Env_has_parameter(name)
      [] source = "file" -> File_has_parameter(name)

get_parameter(source, name) ==
    CASE source = "cli" -> CLI_get_parameter(name)
      [] source = "env" -> Env_get_parameter(name)
      [] source = "file" -> File_get_parameter(name)

Returned(value) == [raised |-> "none", value |-> value]
AttributeError == [raised |-> "AttributeError", value |-> Scalar(None)]

\* After the loop: the first non-empty collection, then the system
\* configuration, then AttributeError
GetattrFallback(item, config_value_seq, config_value_map) ==
    IF config_value_seq # <<>> THEN Returned(TupleOf(config_value_seq))
    ELSE IF config_value_map # EmptyDict THEN Returned(DictOf(config_value_map))
    ELSE IF item \in DOMAIN system_config THEN Returned(system_config[item])
    ELSE AttributeError

\* The loop over CONFIG_PARSE_ORDER from position k on
RECURSIVE GetattrLoop(_, _, _, _)
GetattrLoop(item, k, config_value_seq, config_value_map) ==
    IF k > Len(CONFIG_PARSE_ORDER)
    THEN GetattrFallback(item, config_value_seq, config_value_map)
    ELSE LET source == CONFIG_PARSE_ORDER[k]
         IN IF SourceIsSet(source) /\ has_parameter(source, item)
            THEN LET value == get_parameter(source, item)
                 IN IF value.kind \in {"tuple", "list"}
                    THEN GetattrLoop(item, k + 1, config_value_seq \o value.val,
                                     config_value_map)
                    ELSE IF value.kind = "dict"
                    THEN GetattrLoop(item, k + 1, config_value_seq,
                                     DictUpdate(config_value_map, value.val))
                    ELSE Returned(value)
            ELSE GetattrLoop(item, k + 1, config_value_seq, config_value_map)

Context_getattr(item) == GetattrLoop(item, 1, <<>>, EmptyDict)

\* constants.py
LOCAL_CHANNEL_NAME == "local"
DEFAULTS_CHANNEL_NAME == "defaults"

OperationNotAllowed == [raised |-> "OperationNotAllowed", value |-> Scalar(None)]
ArgumentError == [raised |-> "ArgumentError", value |-> Scalar(None)]

\* The truth value Python gives a value in `if value` / `not value`. A str
\* taken from the environment is never spelled "True", "False" or "None"
\* in the model, so these three are the bool and None objects.
Truthy(value) ==
    CASE value.kind = "scalar" -> value.val \notin {None, "False", ""}
      [] value.kind \in {"tuple", "list"} -> value.val # <<>>
      [] value.kind = "dict" -> value.val # EmptyDict

TypeError == [raised |-> "TypeError", value |-> Scalar(None)]

\* The loop of Context._get_channel_names: a mapping entry gives its first
\* key, an empty mapping nothing, a str itself
RECURSIVE ChannelNames(_)
ChannelNames(channels) ==
    IF channels = <<>> THEN <<>>
    ELSE LET channel == Head(channels)
         IN IF IsMapping(channel)
            THEN IF Len(channel) > 2
                 THEN <<SubSeq(channel, 2, Len(channel) - 1)>> \o ChannelNames(Tail(channels))
                 ELSE ChannelNames(Tail(channels))
            ELSE <<channel>> \o ChannelNames(Tail(channels))

\* A plausible slip: every entry appended as it is, mappings included
Context_get_channel_names_unreduced ==
    LET found == Context_getattr("channels")
    IN IF found.raised # "none" THEN found
       ELSE IF found.value.kind \in {"tuple", "list"}
       THEN Returned(TupleOf(found.value.val))
       ELSE IF found.value.val = None THEN TypeError
       ELSE Returned(TupleOf(
                [k \in 1..Len(found.value.val) |-> SubSeq(found.value.val, k, k)]))

\* Context._get_channel_names: the AttributeError of the lookup propagates;
\* iterating None raises TypeError, iterating a str gives its characters
Context_get_channel_names ==
    LET found == Context_getattr("channels")
    IN IF found.raised # "none" THEN found
       ELSE IF found.value.kind \in {"tuple", "list"}
       THEN Returned(TupleOf(ChannelNames(found.value.val)))
       ELSE IF found.value.val = None THEN TypeError
       ELSE Returned(TupleOf(ChannelNames(
                [k \in 1..Len(found.value.val) |-> SubSeq(found.value.val, k, k)])))

\* Variants of the override branch: the channel check first, no channel
\* check, and the configured channels kept
override_branch_channel_first(enabled, channel, local_add) ==
    IF ~Truthy(channel) THEN ArgumentError
    ELSE IF ~Truthy(enabled) THEN OperationNotAllowed
    ELSE Returned(TupleOf(DictFromKeys(local_add \o channel.val)))

override_branch_no_channel_check(enabled, channel, local_add) ==
    IF ~Truthy(enabled) THEN OperationNotAllowed
    ELSE IF ~Truthy(channel) THEN Returned(TupleOf(local_add))
    ELSE Returned(TupleOf(DictFromKeys(local_add \o channel.val)))

override_branch_with_config(enabled, channel, local_add) ==
    IF ~Truthy(enabled) THEN OperationNotAllowed
    ELSE IF ~Truthy(channel) THEN ArgumentError
    ELSE LET names == Context_get_channel_names
         IN IF names.raised # "none" THEN names
            ELSE Returned(TupleOf(DictFromKeys(
                     local_add \o channel.val \o names.value.val)))

\* The branch of Context.channels taken when override_channels is requested
override_branch(enabled, channel, local_add) ==
    IF ~Truthy(enabled) THEN OperationNotAllowed
    ELSE IF ~Truthy(channel) THEN ArgumentError
    ELSE Returned(TupleOf(DictFromKeys(local_add \o channel.val)))

\* The body of the Context.channels property
channels_fget ==
    LET use_local == Context_getattr("use_local")
    IN IF use_local.raised # "none" THEN use_local
       ELSE IF ~cli_config_source.present THEN AttributeError
       ELSE
       LET local_add == IF Truthy(use_local.value) THEN <<LOCAL_CHANNEL_NAME>> ELSE <<>>
           override_channels == CLI_get_parameter("override_channels")
           channel == CLI_get_parameter("channel")
       IN IF Truthy(override_channels)
          THEN LET enabled == Context_getattr("override_channels_enabled")
               IN IF enabled.raised # "none" THEN enabled
                  ELSE override_branch(enabled.value, channel, local_add)
          ELSE IF Truthy(channel)
          THEN IF ~file_config_source.present THEN AttributeError
               ELSE
               LET channel_in_config_files ==
                       \E k \in 1..Len(raw_data) : "channels" \in DOMAIN raw_data[k].data.data
               IN IF ~channel_in_config_files
                  THEN Returned(TupleOf(DictFromKeys(
                           local_add \o channel.val \o <<DEFAULTS_CHANNEL_NAME>>)))
                  ELSE LET names == Context_get_channel_names
                       IN IF names.raised # "none" THEN names
                          ELSE Returned(TupleOf(DictFromKeys(
                                   channel.val \o names.value.val \o local_add)))
          ELSE LET names == Context_get_channel_names
               IN IF names.raised # "none" THEN names
                  ELSE Returned(TupleOf(DictFromKeys(names.value.val \o local_add)))

\* context.channels: an AttributeError that leaves the property makes
\* Python call __getattr__("channels")
Context_channels ==
    LET result == channels_fget
    IN IF result.raised = "AttributeError" THEN Context_getattr("channels") ELSE result

NoLookup == [via |-> "", item |-> "", result |-> AttributeError]

\* Nothing has been handed to get_condarc_obj directly
NoMerge == [order |-> "none", exception |-> NoException, value |-> EmptyDict]
NoFragments ==
    /\ fragments = <<>>
    /\ merged = NoMerge

\* No Context has been built
NoContext ==
    /\ file_config_source = [present |-> FALSE]
    /\ env_config_source = [present |-> FALSE]
    /\ cli_config_source = [present |-> FALSE, args_obj |-> EmptyDict]
    /\ environ = EmptyDict
    /\ system_config = EmptyDict
    /\ lookup = NoLookup

(***************************************************************************)
(* The inputs of the model                                                 *)
(***************************************************************************)
Path(k) == "condarc_" \o ToString(k)

RawChannels == {<<"defaults">>, <<"conda-forge">>}
RawCustomChannels == {[a |-> "1"], [a |-> "2", b |-> "3"]}
RawAlwaysYes == {"True", "False"}

\* Mappings that set any subset of channels, custom_channels and always_yes
PlainMappings ==
    {[fld \in keys |-> IF fld = "channels" THEN c
                       ELSE IF fld = "custom_channels" THEN m ELSE y] :
        keys \in SUBSET {"channels", "custom_channels", "always_yes"},
        c \in RawChannels, m \in RawCustomChannels, y \in RawAlwaysYes}

\* Mappings that use aliases, a None-default field, an unparsable value and
\* an alias whose target the schema does not declare
OtherMappings ==
    {[channel |-> <<"conda-forge">>, yes |-> "yes"],
     [client_ssl_cert |-> "cert.pem"],
     [always_yes |-> "maybe"],
     [solver |-> "libmamba"]}

\* The two files of the two-file tests, with their values exchanged
FileA == [channels |-> <<"defaults">>, always_yes |-> "True"]
FileB == [channels |-> <<"conda-forge">>, always_yes |-> "False"]

Contents ==
    {DictContent(data) : data \in PlainMappings \cup OtherMappings}
    \cup {[kind |-> "str", data |-> EmptyDict], [kind |-> "none", data |-> EmptyDict]}

DiskStates ==
    {[io |-> "ok", content |-> content] : content \in Contents}
    \cup {[io |-> "oserror", content |-> DictContent(EmptyDict)],
          [io |-> "parse_error", content |-> DictContent(EmptyDict)]}

(***************************************************************************)
(* FileConfigSource.__init__                                               *)
(***************************************************************************)
FilesGiven(states) ==
    /\ file_type \in {"yaml", "json"}
    /\ \E n \in 0..MaxFiles :
          /\ config_files = [k \in 1..n |-> Path(k)]
          /\ disk \in [1..n -> states]
    /\ raw_data = <<>>
    /\ parsed_data = EmptyDict
    /\ exception = NoException
    /\ processed = 0
    /\ pc = "read"
    /\ NoContext
    /\ NoFragments

Init == FilesGiven(DiskStates)

\* self.raw_data = tuple((path, self.file_parser(path)) for path in self.config_files)
ReadConfigFiles ==
    /\ pc = "read"
    /\ raw_data' = [k \in 1..Len(config_files) |->
                      [path |-> config_files[k],
                       data |-> get_config_file_parser(file_type, disk[k])]]
    /\ pc' = "merge"
    /\ UNCHANGED <<file_type, config_files, disk, parsed_data, exception, processed>>
    /\ UNCHANGED <<ctxvars, lookup, mergevars>>

\* self.parsed_data = self._merge(self.config_files)
MergeConfigFiles ==
    /\ pc = "merge"
    /\ LET result == FileConfigSource_merge(config_files, raw_data)
       IN /\ parsed_data' = result.value
          /\ raw_data' = result.config_data
          /\ exception' = result.exception
          /\ processed' = result.processed
          /\ pc' = IF result.exception = NoException THEN "done" ELSE "raised"
    /\ UNCHANGED <<file_type, config_files, disk>>
    /\ UNCHANGED <<ctxvars, lookup, mergevars>>

Next == ReadConfigFiles \/ MergeConfigFiles

Spec == Init /\ [][Next]_vars

(***************************************************************************)
(* FileConfigSource.__init__ over files that use alias names               *)
(***************************************************************************)
\* Mappings written with aliases, with canonical names, and with both names
\* of one field
AliasMappings ==
    OtherMappings
    \cup {EmptyDict, FileA, FileB,
          [channel |-> <<"conda-forge">>, channels |-> <<"defaults">>],
          [envs_path |-> <<"/opt/envs">>, client_cert |-> "cert.pem"]}

AliasDiskStates ==
    {[io |-> "ok", content |-> DictContent(data)] : data \in AliasMappings}
    \cup {[io |-> "ok", content |-> [kind |-> "str", data |-> EmptyDict]],
          [io |-> "ok", content |-> [kind |-> "none", data |-> EmptyDict]],
          [io |-> "oserror", content |-> DictContent(EmptyDict)],
          [io |-> "parse_error", content |-> DictContent(EmptyDict)]}

AliasInit == FilesGiven(AliasDiskStates)

SpecAlias == AliasInit /\ [][Next]_vars

(***************************************************************************)
(* The Context: its sources are built, then attributes are looked up       *)
(***************************************************************************)
\* argparse Namespaces
Namespaces ==
    {EmptyDict,
     [always_yes |-> Scalar("True")],
     [always_yes |-> Scalar(None)],
     [client_ssl_cert |-> Scalar("cli.pem"), custom_channels |-> DictOf([a |-> "9"])],
     [pinned_packages |-> ListOf(<<"numpy">>)],
     [channel |-> ListOf(<<"bioconda">>)],
     [override_channels |-> Scalar("False"),
      channel |-> ListOf(<<"bioconda", "defaults", "bioconda">>)],
     [override_channels |-> Scalar("True")],
     [override_channels |-> Scalar("True"), channel |-> ListOf(<<>>)],
     [override_channels |-> Scalar("True"), channel |-> Scalar(None)],
     [override_channels |-> Scalar("True"), channel |-> ListOf(<<"bioconda", "local">>)],
     [override_channels |-> Scalar("True"),
      channel |-> ListOf(<<"bioconda", "conda-forge", "bioconda">>)]}

Environs ==
    {EmptyDict,
     [CONDA_ALWAYS_YES |-> "true"],
     [CONDA_ALWAYS_YES |-> "false", CONDA_CLIENT_SSL_CERT |-> "env.pem"],
     [CONDA_CHANNELS |-> "bioconda,defaults"],
     [CONDA_CHANNELS |-> "test_1,test_2", CONDA_USE_LOCAL |-> "true"],
     [CONDA_ENVS_DIRS |-> "/home/test:/var/lib/test",
      CONDA_PINNED_PACKAGES |-> "test_1&test_2"],
     [CONDA_ALLOWLIST_CHANNELS |-> "main,extra"],
     [CONDA_CHANNELS |-> "localhost,testing",
      CONDA_PINNED_PACKAGES |-> "test_1&test_2&test_3"]}

\* The file lists a Context's file source is built from
ContextFiles ==
    {<<>>, <<FileA>>, <<FileA, FileB>>,
     << [client_ssl_cert |-> "cert.pem"], [custom_channels |-> [a |-> "1"]] >>,
     << [channel |-> <<"conda-forge">>, yes |-> "yes"] >>,
     << [use_local |-> "True"] >>,
     << [use_local |-> "True", channels |-> <<"conda-forge", "defaults">>] >>,
     << [override_channels_enabled |-> "False", use_local |-> "True"] >>,
     << [pinned_packages |-> <<"python">>, allowlist_channels |-> <<"main">>],
        [pinned_packages |-> <<"pip">>] >>,
     << [channels |-> <<MappingEntry("http://localhost"), "http://localhost",
                        "defaults">>] >>}

SystemConfiguration ==
    [home |-> Scalar("/home/user"), shell |-> Scalar("/bin/sh"),
     default_channels |-> TupleOf(<<"https://repo.anaconda.com/pkgs/main",
                                    "https://repo.anaconda.com/pkgs/r">>)]

\* The names looked up
Items ==
    {"always_yes", "client_ssl_cert", "channels", "custom_channels", "home", "missing",
     "allowlist_channels", "envs_dirs", "pinned_packages", "use_local",
     "override_channels_enabled"}

\* The state after Context.__init__: each source is set or None; a file
\* source that is set has been constructed from its files
ContextBuilt(file_lists, environs, namespaces) ==
    /\ file_type = "yaml"
    /\ \E present \in BOOLEAN, files \in file_lists :
          LET data == [k \in 1..Len(files) |->
                          [path |-> Path(k), data |-> DictContent(files[k])]]
              built == FileConfigSource_merge(files, data)
          IN /\ file_config_source = [present |-> present]
             /\ config_files = IF present THEN [k \in 1..Len(files) |-> Path(k)] ELSE <<>>
             /\ disk = IF present
                       THEN [k \in 1..Len(files) |->
                                [io |-> "ok", content |-> DictContent(files[k])]]
                       ELSE <<>>
             /\ raw_data = IF present THEN built.config_data ELSE <<>>
             /\ parsed_data = IF present THEN built.value ELSE EmptyDict
             /\ processed = IF present THEN built.processed ELSE 0
             /\ pc = IF present THEN "done" ELSE "read"
    /\ exception = NoException
    /\ env_config_source \in {[present |-> b] : b \in BOOLEAN}
    /\ environ \in environs
    /\ cli_config_source \in
          {[present |-> TRUE, args_obj |-> ns] : ns \in namespaces}
          \cup {[present |-> FALSE, args_obj |-> EmptyDict]}
    /\ system_config = SystemConfiguration
    /\ lookup = NoLookup
    /\ NoFragments

CtxInit == ContextBuilt(ContextFiles, Environs, Namespaces)

\* A variant in which a lookup that raises drops the CLI source
GetAttr_dropping_cli ==
    /\ \E item \in Items :
          /\ lookup' = [via |-> "__getattr__", item |-> item, result |-> Context_getattr(item)]
          /\ cli_config_source' =
                IF Context_getattr(item).raised # "none"
                THEN [present |-> FALSE, args_obj |-> EmptyDict]
                ELSE cli_config_source
    /\ UNCHANGED <<filevars, file_config_source, env_config_source, environ, system_config,
                   mergevars>>

\* context.<item>, for an item that is no property of Context; the field
\* "channels" is reached this way through context.channel_parameters
GetAttr ==
    /\ \E item \in Items :
          lookup' = [via |-> "__getattr__", item |-> item, result |-> Context_getattr(item)]
    /\ UNCHANGED <<filevars, ctxvars, mergevars>>

\* context.channels
GetChannels ==
    /\ lookup' = [via |-> "property", item |-> "channels", result |-> Context_channels]
    /\ UNCHANGED <<filevars, ctxvars, mergevars>>

CtxNext == GetAttr \/ GetChannels

SpecCtx == CtxInit /\ [][CtxNext]_vars

(***************************************************************************)
(* The Context in a process whose environment and files change             *)
(***************************************************************************)
RunFiles == {<<>>, <<FileA>>}
RunEnvirons ==
    {EmptyDict,
     [CONDA_ALWAYS_YES |-> "true"],
     [CONDA_ALWAYS_YES |-> "false", CONDA_CHANNELS |-> "bioconda,defaults"]}
RunNamespaces == {EmptyDict, [always_yes |-> Scalar("True")]}

RunInit == ContextBuilt(RunFiles, RunEnvirons, RunNamespaces)

\* os.environ is assigned to, by the process or a library it calls
ChangeEnviron ==
    /\ \E env \in RunEnvirons : env # environ /\ environ' = env
    /\ UNCHANGED <<filevars, file_config_source, env_config_source, cli_config_source,
                   system_config, lookup, mergevars>>

\* The config files are rewritten on disk after they have been read
ChangeFiles ==
    /\ Len(disk) > 0
    /\ disk' = [k \in 1..Len(disk) |-> [io |-> "ok", content |-> DictContent(FileB)]]
    /\ disk' # disk
    /\ UNCHANGED <<file_type, config_files, raw_data, parsed_data, exception, processed, pc>>
    /\ UNCHANGED <<ctxvars, lookup, mergevars>>

RunNext == GetAttr \/ GetChannels \/ ChangeEnviron \/ ChangeFiles

SpecRun == RunInit /\ [][RunNext]_vars

(***************************************************************************)
(* get_condarc_obj and merge_condarc applied to lists of valid mappings    *)
(***************************************************************************)
MaxFragments == 3

\* Valid mappings: overlapping channels, conflicting custom_channels keys,
\* set and unset scalars, a repeated channel, a mapping-form channel
MergeFiles ==
    {EmptyDict,
     [channels |-> <<"conda-forge", "defaults">>, client_ssl_cert |-> "a.pem"],
     [channels |-> <<"bioconda", "conda-forge">>, custom_channels |-> [a |-> "1"]],
     [custom_channels |-> [a |-> "2", b |-> "3"], always_yes |-> "True",
      pinned_packages |-> <<"python">>],
     [channels |-> <<"conda-forge", "conda-forge">>],
     [channels |-> <<MappingEntry("http://localhost"), "defaults">>]}

MergeInit ==
    /\ \E n \in 1..MaxFragments : fragments \in [1..n -> MergeFiles]
    /\ merged = NoMerge
    /\ file_type = "yaml"
    /\ config_files = <<>>
    /\ disk = <<>>
    /\ raw_data = <<>>
    /\ parsed_data = EmptyDict
    /\ exception = NoException
    /\ processed = 0
    /\ pc = "read"
    /\ NoContext

\* The CondarcConfig objects of the fragments
TypedFragments == [k \in 1..Len(fragments) |-> CondarcConfig(remap_aliases(fragments[k])).value]

\* get_condarc_obj(config_data): reduce(merge_condarc, ...) nests to the left
GetCondarcObj ==
    /\ LET result == get_condarc_obj([k \in 1..Len(fragments) |->
                          [path |-> Path(k), data |-> DictContent(fragments[k])]])
       IN merged' = [order |-> "left", exception |-> result.exception,
                     value |-> result.value]
    /\ UNCHANGED <<filevars, ctxvars, lookup, fragments>>

\* merge_condarc nested to the right: merge(A, merge(B, C))
RECURSIVE RightReduce(_)
RightReduce(condarc_configs) ==
    IF Len(condarc_configs) = 1 THEN condarc_configs[1]
    ELSE merge_condarc(condarc_configs[1], RightReduce(Tail(condarc_configs)))

RECURSIVE RightReduceRaises(_)
RightReduceRaises(condarc_configs) ==
    IF Len(condarc_configs) = 1 THEN FALSE
    ELSE \/ RightReduceRaises(Tail(condarc_configs))
         \/ merge_condarc_raises(condarc_configs[1], RightReduce(Tail(condarc_configs)))

MergeRightFirst ==
    /\ Len(fragments) >= 2
    /\ merged' =
          IF RightReduceRaises(TypedFragments)
          THEN [order |-> "right",
                exception |-> [type |-> "TypeError", message |-> <<"unhashable type: 'dict'">>],
                value |-> EmptyDict]
          ELSE [order |-> "right", exception |-> NoException,
                value |-> RightReduce(TypedFragments)]
    /\ UNCHANGED <<filevars, ctxvars, lookup, fragments>>

MergeNext == GetCondarcObj \/ MergeRightFirst

SpecMerge == MergeInit /\ [][MergeNext]_vars

(***************************************************************************)
(* Properties of the file configuration source                             *)
(***************************************************************************)
Finished == pc \in {"done", "raised"}

\* The mapping of file k as validation sees it (aliases renamed)
RawOf(k) == remap_aliases(raw_data[k].data.data)

\* The validated configuration of file k
TypedOf(k) == CondarcConfig(RawOf(k)).value

RemoveAt(seq, k) == SubSeq(seq, 1, k - 1) \o SubSeq(seq, k + 1, Len(seq))

\* What the constructor gives for the file list without its k-th file
WithoutFile(k) == FileConfigSource_merge(RemoveAt(config_files, k), RemoveAt(raw_data, k))

\* File k is reported by get_condarc_obj: a bare string or a validation failure
Failing(k) ==
    \/ raw_data[k].data.kind = "str"
    \/ /\ raw_data[k].data.kind = "dict"
       /\ CondarcConfig(RawOf(k)).errors # <<>>

RECURSIVE FailingPaths(_)
FailingPaths(k) ==
    IF k > Len(raw_data) THEN <<>>
    ELSE (IF Failing(k) THEN <<raw_data[k].path>> ELSE <<>>) \o FailingPaths(k + 1)

\* Messages are token sequences: a path is one token of the message
IsPath(token) == \E k \in 1..Len(config_files) : config_files[k] = token

RECURSIVE PathsOf(_)
PathsOf(message) ==
    IF message = <<>> THEN <<>>
    ELSE (IF IsPath(message[1]) THEN <<message[1]>> ELSE <<>>) \o PathsOf(Tail(message))

\* Every file was opened and parsed
AllRead == \A k \in 1..Len(config_files) : disk[k].io = "ok"

\* C1: for every scalar field, the merge of two files holds the higher
\* file's value when that file set the field and the lower file's value
\* otherwise.
C1_OverrideKeepsLowerValue ==
    (pc = "done" /\ Len(raw_data) = 2 /\ AllRead) =>
        \A fld \in ScalarFields :
            parsed_data[fld] = IF fld \in DOMAIN RawOf(2) THEN TypedOf(2)[fld]
                               ELSE TypedOf(1)[fld]

\* What a file contributes to a sequence field: nothing when it omits it
Contribution(k, fld) == IF fld \in DOMAIN RawOf(k) THEN TypedOf(k)[fld] ELSE <<>>

\* C2: for every sequence field, the merge of two files is the higher
\* file's sequence followed by the lower file's, repeats removed, a file
\* that omits the field contributing the empty sequence.
C2_ConcatenateHighThenLow ==
    (pc = "done" /\ Len(raw_data) = 2 /\ AllRead) =>
        \A fld \in TupleFields :
            parsed_data[fld] = DictFromKeys(Contribution(2, fld) \o Contribution(1, fld))

\* C3: for every mapping field, the merge of two files is the key-wise
\* union of their mappings, the higher file's value taken for a key both
\* have.
C3_MapUnionHighWins ==
    (pc = "done" /\ Len(raw_data) = 2) =>
        \A fld \in DictFields :
            /\ DOMAIN parsed_data[fld] = DOMAIN TypedOf(1)[fld] \cup DOMAIN TypedOf(2)[fld]
            /\ \A key \in DOMAIN parsed_data[fld] :
                  parsed_data[fld][key] = IF key \in DOMAIN TypedOf(2)[fld]
                                          THEN TypedOf(2)[fld][key]
                                          ELSE TypedOf(1)[fld][key]

AllSetAlwaysYes == \A k \in 1..Len(raw_data) : "always_yes" \in DOMAIN RawOf(k)

TwoFileScenario ==
    /\ pc = "done"
    /\ Len(raw_data) = 2
    /\ disk[1] = [io |-> "ok", content |-> DictContent(FileA)]
    /\ disk[2] = [io |-> "ok", content |-> DictContent(FileB)]

C6_OmittingFileChangesNothing ==
    (pc = "done" /\ AllRead) =>
        \A k \in 1..Len(raw_data) : \A fld \in Fields \ DOMAIN RawOf(k) :
            parsed_data[fld] = WithoutFile(k).value[fld]

\* C7: when some file is a bare string or fails validation, every file is
\* processed and one CondaConfigError is raised whose message names the
\* failing files in list order and no other file, ends with the suggestion
\* text, and no configuration is produced.
C7_AllFailuresAggregated ==
    (Finished /\ \E k \in 1..Len(raw_data) : Failing(k)) =>
        /\ processed = Len(raw_data)
        /\ exception.type = "CondaConfigError"
        /\ PathsOf(exception.message) = FailingPaths(1)
        /\ exception.message[Len(exception.message)] = CONDARC_PARSE_ERROR_SUGGESTION
        /\ parsed_data = EmptyDict

Swallowed(k) == disk[k].io # "ok" \/ disk[k].content.kind # "dict"

\* C8: a file that is unreadable or whose content is not a mapping raises
\* nothing and is treated as absent: the outcome is that of the list without
\* the file.
C8_BadFileTreatedAsAbsent ==
    Finished =>
        \A k \in 1..Len(raw_data) :
            Swallowed(k) =>
                /\ exception = WithoutFile(k).exception
                /\ parsed_data = WithoutFile(k).value

\* C9: the readers return an empty mapping and raise nothing when opening
\* fails or the parser reports an error, and the parsed content otherwise.
C9_ReadersSwallowErrors ==
    pc = "merge" =>
        /\ Len(raw_data) = Len(config_files)
        /\ exception = NoException
        /\ \A k \in 1..Len(raw_data) :
              raw_data[k].data = IF disk[k].io \in {"oserror", "parse_error"}
                                 THEN DictContent(EmptyDict)
                                 ELSE disk[k].content

C9_Witness ==
    /\ pc = "merge"
    /\ Len(raw_data) = 2
    /\ disk[1].io = "parse_error"
    /\ disk[2].io = "ok"
    /\ disk[2].content = DictContent(FileB)
    /\ raw_data[1].data = DictContent(EmptyDict)
    /\ raw_data[2].data = DictContent(FileB)

(***************************************************************************)
(* Properties of the Context lookup                                        *)
(***************************************************************************)
\* The sources that are set and have the name, in the order CLI, Environment, File
CliHas(name) == cli_config_source.present /\ name \in DOMAIN cli_config_source.args_obj
EnvHas(name) == env_config_source.present /\ (ENV_VAR_PREFIX \o Upper(name)) \in DOMAIN environ
FileHas(name) == file_config_source.present /\ name \in Fields

\* C10: for a scalar field the lookup returns the value of the first of the
\* CLI, Environment and File sources that has the name; a lower source's
\* value is returned only when no higher source that is set has the name.
C10_ScalarFirstSourceWins ==
    (lookup.item \in ScalarFields /\ (CliHas(lookup.item) \/ EnvHas(lookup.item) \/ FileHas(lookup.item))) =>
        /\ lookup.result.raised = "none"
        /\ lookup.result.value =
              IF CliHas(lookup.item) THEN cli_config_source.args_obj[lookup.item]
              ELSE IF EnvHas(lookup.item)
                   THEN Scalar(environ[ENV_VAR_PREFIX \o Upper(lookup.item)])
                   ELSE Scalar(parsed_data[lookup.item])

C10_Witness ==
    /\ lookup.item = "always_yes"
    /\ cli_config_source.present
    /\ ~CliHas("always_yes")
    /\ EnvHas("always_yes")
    /\ FileHas("always_yes")
    /\ parsed_data["always_yes"] = "True"
    /\ lookup.result = Returned(Scalar("false"))

(***************************************************************************)
(* Lookups of sequence and mapping fields                                  *)
(***************************************************************************)
AnyHas(name) == CliHas(name) \/ EnvHas(name) \/ FileHas(name)

\* The delimiter documented for a field's environment variable
Delimiter(name) ==
    CASE name = "envs_dirs" -> ":"
      [] name \in {"disallowed_packages", "pinned_packages"} -> "&"
      [] OTHER -> ","

CliSeq(name) ==
    IF CliHas(name) /\ cli_config_source.args_obj[name].kind \in {"tuple", "list"}
    THEN cli_config_source.args_obj[name].val ELSE <<>>
EnvSeq(name) ==
    IF EnvHas(name) THEN Split(environ[EnvVar(name)], Delimiter(name)) ELSE <<>>
FileSeq(name) == IF FileHas(name) THEN parsed_data[name] ELSE <<>>

\* The values of the sources that have the field, highest precedence first
SourcesConcatenated(name) == CliSeq(name) \o EnvSeq(name) \o FileSeq(name)

\* C11: the lookup of a sequence field goes through the CLI, environment
\* and file sources without returning early and yields the concatenation,
\* in that order, of the values of the sources that have the field.
C11_SequenceConcatenatesAllSources ==
    (/\ lookup.via = "__getattr__"
     /\ lookup.item \in TupleFields
     /\ SourcesConcatenated(lookup.item) # <<>>) =>
        lookup.result = Returned(TupleOf(SourcesConcatenated(lookup.item)))

CliMap(name) ==
    IF CliHas(name) /\ cli_config_source.args_obj[name].kind = "dict"
    THEN cli_config_source.args_obj[name].val ELSE EmptyDict
FileMap(name) == IF FileHas(name) THEN parsed_data[name] ELSE EmptyDict

\* C12: the lookup of a mapping field yields the union of the mappings of
\* the sources that have it, and a key that several sources supply carries
\* the value of the highest of them (CLI over file; no environment
\* variable of the model names a mapping field).
C12_MappingHighestSourceWins ==
    (/\ lookup.via = "__getattr__"
     /\ lookup.item \in DictFields
     /\ ~EnvHas(lookup.item)
     /\ CliMap(lookup.item) @@ FileMap(lookup.item) # EmptyDict) =>
        lookup.result = Returned(DictOf(CliMap(lookup.item) @@ FileMap(lookup.item)))

\* C13: a lookup raises AttributeError exactly when no source that is set
\* has the name and the system configuration has no such attribute; a name
\* some source has never raises, whatever its value.
C13_AttributeErrorOnlyWhenNowhere ==
    lookup.via = "__getattr__" =>
        (lookup.result.raised = "AttributeError"
            <=> (~AnyHas(lookup.item) /\ lookup.item \notin DOMAIN system_config))

(***************************************************************************)
(* The channels property                                                   *)
(***************************************************************************)
ChannelsLookup == lookup.via = "property"

OverrideRequested ==
    cli_config_source.present /\ Truthy(CLI_get_parameter("override_channels"))

\* override_channels_enabled and use_local as the Context resolves them
OverrideEnabled ==
    LET enabled == Context_getattr("override_channels_enabled")
    IN enabled.raised = "none" /\ Truthy(enabled.value)
OverrideDisabled ==
    LET enabled == Context_getattr("override_channels_enabled")
    IN enabled.raised = "none" /\ ~Truthy(enabled.value)
UseLocal ==
    LET use_local == Context_getattr("use_local")
    IN use_local.raised = "none" /\ Truthy(use_local.value)

\* The -c / --channel list of the CLI source, empty when absent
CliChannel ==
    IF cli_config_source.present /\ CLI_get_parameter("channel").kind \in {"tuple", "list"}
    THEN CLI_get_parameter("channel").val ELSE <<>>

LocalPrefix == IF UseLocal THEN <<"local">> ELSE <<>>

Elements(seq) == {seq[k] : k \in 1..Len(seq)}
NoDuplicates(seq) == \A i, j \in 1..Len(seq) : seq[i] = seq[j] => i = j

FileDeclaresChannels ==
    /\ file_config_source.present
    /\ \E k \in 1..Len(disk) :
          /\ disk[k].content.kind = "dict"
          /\ {"channels", "channel"} \cap DOMAIN disk[k].content.data # {}

CliChannelsOnly ==
    ChannelsLookup /\ cli_config_source.present /\ ~OverrideRequested /\ CliChannel # <<>>

\* C17: without override_channels and with a non-empty CLI channel list, the
\* channels lookup returns the CLI list followed by "defaults" (after
\* "local" when use_local is set) when no config file declared channels, a
\* declaration under the alias channel included; when some file declared
\* them, the merged channel names follow the CLI list and "defaults" is not
\* appended. Each name is kept once, at its first place.
C17_CliChannelsThenDefaults ==
    CliChannelsOnly =>
        /\ lookup.result.raised = "none"
        /\ lookup.result.value.kind = "tuple"
        /\ lookup.result.value.val =
              IF ~FileDeclaresChannels
              THEN DictFromKeys(LocalPrefix \o CliChannel \o <<"defaults">>)
              ELSE DictFromKeys(CliChannel \o SourcesConcatenated("channels") \o LocalPrefix)

\* C18: when use_local resolves to true and the channels lookup returns,
\* "local" is the first name of the returned list, whichever branch of the
\* computation produced it (a CLI and a file source are set, so that the
\* computation runs through).
C18_LocalComesFirst ==
    (/\ ChannelsLookup
     /\ cli_config_source.present /\ file_config_source.present
     /\ UseLocal
     /\ lookup.result.raised = "none") =>
        /\ lookup.result.value.kind = "tuple"
        /\ lookup.result.value.val # <<>>
        /\ lookup.result.value.val[1] = "local"

(***************************************************************************)
(* The environment source                                                  *)
(***************************************************************************)
\* C19: for a sequence field whose variable CONDA_<FIELD> is set,
\* get_parameter returns the variable's value split on the field's
\* delimiter (comma, colon for envs_dirs, ampersand for disallowed_packages
\* and pinned_packages), and has_parameter is true exactly when it is set.
C19_EnvSequenceIsSplit ==
    \A f \in TupleFields :
        /\ Env_has_parameter(f) <=> (ENV_VAR_PREFIX \o Upper(f)) \in DOMAIN environ
        /\ (ENV_VAR_PREFIX \o Upper(f)) \in DOMAIN environ =>
              /\ Env_get_parameter(f).kind = "list"
              /\ Env_get_parameter(f).val =
                    Split(environ[ENV_VAR_PREFIX \o Upper(f)], Delimiter(f))

(***************************************************************************)
(* Alias remapping                                                         *)
(***************************************************************************)
Aliases == {FIELD_ALIASES[k][1] : k \in 1..Len(FIELD_ALIASES)}
AliasPairs == {FIELD_ALIASES[k] : k \in 1..Len(FIELD_ALIASES)}

\* The mapping the reader returned for file k, and what remap_aliases left
FragmentIn(k) == get_config_file_parser(file_type, disk[k]).data
FragmentOut(k) == raw_data[k].data.data
WasRemapped(k) ==
    /\ Finished
    /\ k \in 1..processed
    /\ raw_data[k].data.kind = "dict"

\* Targets of the aliases present in a fragment
AliasTargets(config) == {pair[2] : pair \in {q \in AliasPairs : q[1] \in DOMAIN config}}

\* C20: after remap_aliases every alias of the fragment is removed and its
\* canonical key holds the alias's value, in place of any value it had;
\* every other key and value is as before; a fragment without an alias is
\* unchanged, and a second application changes nothing.
C20_RemapAliasesRenamesOnly ==
    \A k \in 1..Len(raw_data) : WasRemapped(k) =>
        /\ FragmentOut(k) = remap_aliases(FragmentIn(k))
        /\ \A pair \in AliasPairs : pair[1] \in DOMAIN FragmentIn(k) =>
              /\ pair[1] \notin DOMAIN FragmentOut(k)
              /\ pair[2] \in DOMAIN FragmentOut(k)
              /\ FragmentOut(k)[pair[2]] = FragmentIn(k)[pair[1]]
        /\ DOMAIN FragmentOut(k) =
              (DOMAIN FragmentIn(k) \ Aliases) \cup AliasTargets(FragmentIn(k))
        /\ \A key \in DOMAIN FragmentIn(k) \ (Aliases \cup AliasTargets(FragmentIn(k))) :
              FragmentOut(k)[key] = FragmentIn(k)[key]
        /\ DOMAIN FragmentIn(k) \cap Aliases = {} => FragmentOut(k) = FragmentIn(k)
        /\ remap_aliases(FragmentOut(k)) = FragmentOut(k)

C20_Witness ==
    \E k \in 1..Len(raw_data) :
        /\ WasRemapped(k)
        /\ FragmentIn(k) = [channel |-> <<"conda-forge">>, channels |-> <<"defaults">>]
        /\ FragmentOut(k) = [channels |-> <<"conda-forge">>]

(***************************************************************************)
(* Alias files and canonical files                                         *)
(***************************************************************************)
\* The canonical name the alias table gives a key
CanonicalName(key) ==
    IF key \in Aliases
    THEN (CHOOSE pair \in AliasPairs : pair[1] = key)[2]
    ELSE key

\* No two keys of the fragment stand for the same field
NoNameClash(config) ==
    \A a, b \in DOMAIN config : CanonicalName(a) = CanonicalName(b) => a = b

\* The fragment rewritten by hand with canonical names
Canonical(config) ==
    [f \in {CanonicalName(key) : key \in DOMAIN config} |->
        config[CHOOSE key \in DOMAIN config : CanonicalName(key) = f]]

\* What the readers return when every file is rewritten that way
CanonicalData ==
    [k \in 1..Len(config_files) |->
        LET content == get_config_file_parser(file_type, disk[k])
        IN [path |-> config_files[k],
            data |-> IF content.kind = "dict"
                     THEN [kind |-> "dict", data |-> Canonical(content.data)]
                     ELSE content]]

AllMappingsClashFree ==
    \A k \in 1..Len(config_files) :
        LET content == get_config_file_parser(file_type, disk[k])
        IN content.kind = "dict" => NoNameClash(content.data)

\* C21: files written with alias names resolve to the configuration (or the
\* error) of the same files written with canonical names; for a single
\* valid file every field it does not set is at its schema default.
C21_AliasFileEqualsCanonicalFile ==
    (Finished /\ AllMappingsClashFree) =>
        LET canonical == FileConfigSource_merge(config_files, CanonicalData)
        IN /\ parsed_data = canonical.value
           /\ exception = canonical.exception
           /\ (Len(config_files) = 1 /\ pc = "done") =>
                 \A f \in Fields \ DOMAIN Canonical(FragmentIn(1)) :
                     parsed_data[f] = FieldDefault(f)

C21_Witness ==
    /\ pc = "done"
    /\ Len(config_files) = 1
    /\ FragmentIn(1) = [channel |-> <<"conda-forge">>, yes |-> "yes"]
    /\ parsed_data["channels"] = <<"conda-forge">>
    /\ parsed_data["always_yes"] = "True"
    /\ parsed_data["use_local"] = "False"

(***************************************************************************)
(* Merging taken by itself                                                 *)
(***************************************************************************)
\* The values of a sequence field, highest fragment first
RECURSIVE HighToLow(_, _)
HighToLow(configs, fld) ==
    IF configs = <<>> THEN <<>>
    ELSE configs[Len(configs)][fld] \o HighToLow(SubSeq(configs, 1, Len(configs) - 1), fld)

\* C22: merge_condarc is associative: nesting the merges of the fragments to
\* the left (the reduction get_condarc_obj makes) and to the right gives the
\* same outcome, field by field, and the sequences of a merged configuration
\* hold each element once in first-seen order, highest fragment first.
C22_MergeIsAssociative ==
    (merged.order # "none" /\ Len(fragments) >= 2) =>
        /\ (merged.exception # NoException)
              <=> ReduceRaises(TypedFragments)
        /\ ReduceRaises(TypedFragments) <=> RightReduceRaises(TypedFragments)
        /\ merged.exception = NoException =>
              /\ merged.value = Reduce(TypedFragments)
              /\ merged.value = RightReduce(TypedFragments)
              /\ \A fld \in TupleFields :
                    /\ NoDuplicates(merged.value[fld])
                    /\ merged.value[fld] = DictFromKeys(HighToLow(TypedFragments, fld))

C22_Witness ==
    /\ merged.order = "right"
    /\ Len(fragments) = 3
    /\ fragments[1] = [channels |-> <<"conda-forge", "defaults">>, client_ssl_cert |-> "a.pem"]
    /\ fragments[2] = [channels |-> <<"bioconda", "conda-forge">>, custom_channels |-> [a |-> "1"]]
    /\ fragments[3] = [custom_channels |-> [a |-> "2", b |-> "3"], always_yes |-> "True",
                       pinned_packages |-> <<"python">>]
    /\ merged.value["channels"] = <<"defaults", "bioconda", "conda-forge">>
    /\ merged.value["custom_channels"]["a"] = "1"
    /\ merged.value["client_ssl_cert"] = "a.pem"

\* C23: a FileConfigSource built from an empty file list raises nothing and
\* holds every schema field at its default: has_parameter is true and
\* get_parameter returns the default.
C23_EmptyListGivesDefaults ==
    (Finished /\ Len(config_files) = 0) =>
        /\ pc = "done"
        /\ exception = NoException
        /\ \A f \in Fields :
              /\ File_has_parameter(f)
              /\ File_get_parameter(f).val = FieldDefault(f)

C23_Witness ==
    /\ pc = "done"
    /\ config_files = <<>>
    /\ File_has_parameter("channels")
    /\ File_get_parameter("channels") = TupleOf(<<"defaults">>)

(***************************************************************************)
(* Lookups and the state of the Context                                    *)
(***************************************************************************)
LookupFailed == lookup'.result.raised # "none"

\* What the lookup last made gives in the present state
LookupNow ==
    IF lookup.via = "property" THEN Context_channels ELSE Context_getattr(lookup.item)

C25_LookupsNeverChange ==
    (lookup.via # "" /\ lookup.result.raised = "none") => LookupNow = lookup.result

(***************************************************************************)
(* Channels from the environment only                                      *)
(***************************************************************************)
\* CONDA_CHANNELS is set, the file source (if any) was given no file, and
\* neither the CLI nor use_local contributes a channel
EnvChannelsOnly ==
    /\ env_config_source.present
    /\ "CONDA_CHANNELS" \in DOMAIN environ
    /\ file_config_source.present => config_files = <<>>
    /\ CliChannel = <<>>
    /\ ~OverrideRequested
    /\ ~UseLocal

EnvPinnedOnly ==
    /\ "CONDA_PINNED_PACKAGES" \in DOMAIN environ
    /\ ~(cli_config_source.present /\ CLI_has_parameter("pinned_packages"))

\* C26: when the only channels come from the environment, the channels
\* lookup returns exactly the comma-split CONDA_CHANNELS list, in order, and
\* pinned_packages exactly the ampersand-split CONDA_PINNED_PACKAGES list:
\* the file source's defaults add no element.
C26_EnvChannelsExactly ==
    EnvChannelsOnly =>
        /\ ChannelsLookup =>
              /\ lookup.result.raised = "none"
              /\ lookup.result.value.val = Split(environ["CONDA_CHANNELS"], ",")
        /\ (lookup.via = "__getattr__" /\ lookup.item = "pinned_packages" /\ EnvPinnedOnly) =>
              /\ lookup.result.raised = "none"
              /\ lookup.result.value.val = Split(environ["CONDA_PINNED_PACKAGES"], "&")

(***************************************************************************)
(* The alias table against the schema                                      *)
(***************************************************************************)
\* Every field the class CondarcConfig declares
DeclaredFields ==
    {"channels", "channel_alias", "default_channels", "override_channels_enabled",
     "use_local", "allowlist_channels", "custom_channels", "custom_multichannels",
     "migrated_channel_aliases", "migrated_custom_channels", "add_anaconda_token",
     "allow_non_channel_urls", "restore_free_channel", "repodata_fns",
     "use_only_tar_bz2", "repodata_threads", "envs_dirs", "pkgs_dirs",
     "default_threads", "client_ssl_cert", "client_ssl_cert_key", "local_repodata_ttl",
     "offline", "proxy_servers", "remote_connect_timeout_secs", "remote_max_retries",
     "remote_backoff_factor", "remote_read_timeout_secs", "ssl_verify",
     "aggressive_update_packages", "auto_update_conda", "channel_priority",
     "create_default_packages", "disallowed_packages", "force_reinstall",
     "pinned_packages", "pip_interop_enabled", "track_features", "solver",
     "allow_softlinks", "always_copy", "always_softlink", "path_conflict",
     "rollback_enabled", "safety_checks", "extra_safety_checks",
     "signing_metadata_url_base", "shortcuts", "non_admin_enabled",
     "separate_format_cache", "verify_threads", "execute_threads", "bld_path", "croot",
     "anaconda_upload", "conda_build", "always_yes", "auto_activate_base", "auto_stack",
     "changeps1", "env_prompt", "json__", "notify_outdated_conda", "quiet",
     "report_errors", "show_channel_urls", "verbosity", "unsatisfiable_hints",
     "unsatisfiable_hints_check_depth"}

AliasesIn(config) == {pair \in AliasPairs : pair[1] \in DOMAIN config}

\* C27: every alias (here: every alias a file uses) maps to a declared
\* schema field and is not itself a declared field; so remap_aliases keeps
\* every declared key of the fragment and adds only declared keys.
C27_AliasesAreNotFields ==
    \A k \in 1..Len(disk) :
        WasRemapped(k) =>
            /\ \A pair \in AliasesIn(FragmentIn(k)) :
                  pair[2] \in DeclaredFields /\ pair[1] \notin DeclaredFields
            /\ (DOMAIN FragmentIn(k) \cap DeclaredFields) \subseteq DOMAIN FragmentOut(k)
            /\ (DOMAIN FragmentOut(k) \ DOMAIN FragmentIn(k)) \subseteq DeclaredFields

(***************************************************************************)
(* Duplicates in the configuration get_condarc_obj returns                 *)
(***************************************************************************)
\* C28: for every non-empty list of valid files, a list of one file
\* included, every sequence field of the configuration get_condarc_obj
\* returns holds no element twice.
C28_ReturnedSequencesHaveNoDuplicates ==
    (merged.order = "left" /\ merged.exception = NoException) =>
        \A fld \in TupleFields : NoDuplicates(merged.value[fld])

(***************************************************************************)
(* The type of the values a lookup returns                                 *)
(***************************************************************************)
\* The annotation of the field in CondarcConfig: bool, tuple, dict, or
\* (client_ssl_cert) an optional str
SatisfiesDeclaredType(fld, value) ==
    CASE fld \in BoolFields -> value.kind = "scalar" /\ value.val \in {"True", "False"}
      [] fld \in TupleFields -> value.kind = "tuple"
      [] fld \in DictFields -> value.kind = "dict"
      [] OTHER -> value.kind = "scalar"

\* C29: every value a lookup returns for a declared schema field has the
\* field's declared type, whichever source supplies it: always_yes and
\* use_local are booleans, the sequence fields tuples, also when the value
\* comes from an environment variable or a CLI argument.
C29_LookupValuesAreTyped ==
    (lookup.via # "" /\ lookup.item \in Fields /\ lookup.result.raised = "none") =>
        SatisfiesDeclaredType(lookup.item, lookup.result.value)

(***************************************************************************)
(* The channels property with a CLI source and a file source               *)
(***************************************************************************)
\* C30: with a CLI source and a file source configured, every successful
\* channels lookup returns a tuple of channel names (a mapping-form entry
\* reduced to its first key) in which no name occurs twice, whatever the
\* CLI channel list, the override flag, use_local, the environment's
\* channels and the files' channels are.
C30_ChannelsAreDistinctNames ==
    (ChannelsLookup /\ cli_config_source.present /\ file_config_source.present
        /\ lookup.result.raised = "none") =>
        /\ lookup.result.value.kind = "tuple"
        /\ NoDuplicates(lookup.result.value.val)
        /\ \A name \in Elements(lookup.result.value.val) : ~IsMapping(name)

C30_Witness ==
    /\ ChannelsLookup
    /\ cli_config_source.present
    /\ file_config_source.present
    /\ CliChannel = <<"bioconda", "defaults", "bioconda">>
    /\ Len(raw_data) = 1
    /\ "channels" \in DOMAIN raw_data[1].data.data
    /\ raw_data[1].data.data["channels"] =
          <<MappingEntry("http://localhost"), "http://localhost", "defaults">>
    /\ env_config_source.present
    /\ environ = [CONDA_CHANNELS |-> "test_1,test_2", CONDA_USE_LOCAL |-> "true"]
    /\ lookup.result =
          Returned(TupleOf(<<"bioconda", "defaults", "test_1", "test_2",
                             "http://localhost", "local">>))

====
